---- MODULE Spec2Model ----
(***************************************************************************)
(* The state-transition engine of the media pipeline and its executor:     *)
(* the router process_event (state_transition.py) and the dispatcher,      *)
(* scheduler callbacks and pool callback of Program (program.py).          *)
(*                                                                         *)
(* Python passes MediaItem objects by reference: the object a service is   *)
(* given, the object it yields and the object stored in the container can  *)
(* be one and the same.  The model keeps that: `heap[0]` holds the objects *)
(* owned by the container (media_items), `heap[1..MaxCopies]` hold object  *)
(* trees that are not (yet) stored, and events and pool tasks carry        *)
(* references [h, id] into the heap.                                       *)
(***************************************************************************)
EXTENDS Integers, Sequences, FiniteSets, TLC

\* ------------------------------------------------------------------ bounds
MaxCopies == 2      \* object trees alive outside the container at one time
MaxRequests == 1    \* source ticks and add_to_queue calls
MaxSweeps == 1      \* firings of the retry sweep
MaxScraped == 4     \* cap of the scraped_times counter
MaxFailures == 1    \* service invocations that raise
MaxAges == 1        \* times the freshness intervals elapse
MaxQueue == 3       \* events waiting in the queue
MaxPool == 2        \* futures outstanding in the pool
MaxLog == 6         \* emitters remembered of the events of the wanted title
MaxStarts == 2      \* calls of start() followed
MaxStops == 2       \* calls of stop() followed
MaxChanges == 1     \* changes of the settings followed

\* ------------------------------------------------------- program constants
SeasonCutoff == 3
EpisodeExpansion == 4

\* ------------------------------------------------------------ the catalog
\* The titles: one movie, and one show of two seasons.  The first season
\* has two episodes, the second one.  The second episode of the first
\* season and the whole second season are not listed by the metadata
\* indexer: a graph holds them only if an earlier run left them there.
Ids == {"m1", "sh1", "s1", "e1", "e2", "s2", "e3"}

Aired == Ids \ {"e2", "s2", "e3"}

Type(id) ==
  CASE id = "m1" -> "Movie"
    [] id = "sh1" -> "Show"
    [] id \in {"s1", "s2"} -> "Season"
    [] OTHER -> "Episode"

ParentId(id) ==
  CASE id \in {"s1", "s2"} -> "sh1"
    [] id \in {"e1", "e2"} -> "s1"
    [] id = "e3" -> "s2"
    [] OTHER -> "None"

ChildIds(id) ==
  CASE id = "sh1" -> <<"s1", "s2">>
    [] id = "s1" -> <<"e1", "e2">>
    [] id = "s2" -> <<"e3">>
    [] OTHER -> <<>>

Range(s) == {s[i] : i \in DOMAIN s}

Descendants(id) ==
  Range(ChildIds(id)) \cup UNION {Range(ChildIds(c)) : c \in Range(ChildIds(id))}

Subtree(id) == {id} \cup Descendants(id)

Leaves(id) == {x \in Subtree(id) : Type(x) \in {"Movie", "Episode"}}

\* ------------------------------------------------------------- media items
\* The common header of a MediaItem.  Timestamps are "null", "old" (older
\* than every interval) or "recent"; streams, file and folder are nullable
\* and kept as presence flags.
NoItem ==
  [present |-> FALSE, indexed_at |-> "null", scraped_at |-> "null",
   scraped_times |-> 0, streams |-> FALSE, file |-> FALSE, folder |-> FALSE,
   symlinked |-> FALSE, update_folder |-> "null"]

NewItem == [NoItem EXCEPT !.present = TRUE]

EmptyTree == [x \in Ids |-> NoItem]

None == [h |-> 0, id |-> "None"]

Ref(h, id) == [h |-> h, id |-> id]

Get(H, r) == H[r.h][r.id]

\* item.parent: the parent object of the same tree, or None.
parent(H, r) ==
  IF ParentId(r.id) # "None" /\ H[r.h][ParentId(r.id)].present
  THEN Ref(r.h, ParentId(r.id))
  ELSE None

\* item.seasons / item.episodes: the children the object holds, in order.
children(H, r) ==
  LET ids == SelectSeq(ChildIds(r.id), LAMBDA c : H[r.h][c].present)
  IN [i \in DOMAIN ids |-> Ref(r.h, ids[i])]

\* ------------------------------------------------------- state classifier
LeafState(x) ==
  IF x.symlinked
  THEN IF x.update_folder = "updated" THEN "Completed" ELSE "Symlinked"
  ELSE IF x.file /\ x.folder THEN "Downloaded"
  ELSE IF x.streams THEN "Scraped"
  ELSE IF x.indexed_at # "null" THEN "Indexed"
  ELSE "Unknown"

ContainerState(x, cs) ==
  IF cs # {} /\ cs = {"Completed"} THEN "Completed"
  ELSE IF cs # {} /\ cs \subseteq {"Completed", "Downloaded", "Scraped", "Symlinked"}
  THEN IF "Scraped" \in cs THEN "Scraped"
       ELSE IF "Downloaded" \in cs THEN "Downloaded"
       ELSE "Symlinked"
  ELSE IF "Completed" \in cs THEN "PartiallyCompleted"
  ELSE IF cs = {"Indexed"} \/ (cs = {} /\ x.indexed_at # "null") THEN "Indexed"
  ELSE "Unknown"

SeasonState(T, id) ==
  ContainerState(T[id], {LeafState(T[e]) : e \in {c \in Range(ChildIds(id)) : T[c].present}})

ShowState(T, id) ==
  ContainerState(T[id], {SeasonState(T, s) : s \in {c \in Range(ChildIds(id)) : T[c].present}})

StateOf(T, id) ==
  CASE Type(id) = "Show" -> ShowState(T, id)
    [] Type(id) = "Season" -> SeasonState(T, id)
    [] OTHER -> LeafState(T[id])

\* item.state
State(H, r) == StateOf(H[r.h], r.id)

\* ------------------------------------------------------ capability probes
\* TraktIndexer.should_submit: false for an item that is freshly indexed.
TraktIndexer_should_submit(H, r) == Get(H, r).indexed_at # "recent"

\* Scraping.can_we_scrape: false for an item scraped a moment ago.
can_we_scrape(H, r) == Get(H, r).scraped_at # "recent"

\* Symlinker.should_submit: every leaf under the item has its file in place.
Symlinker_should_submit(H, r) ==
  \A x \in Leaves(r.id) : H[r.h][x].present => (H[r.h][x].file /\ H[r.h][x].folder)

\* ------------------------------------------------------------- the router
\* The tuple of line 23 with the Program class added to it.
source_services_and_self ==
  {"Overseerr", "PlexWatchlist", "Listrr", "Mdblist", "SymlinkLibrary", "TraktContent",
   "Program"}

source_services ==
  {"Overseerr", "PlexWatchlist", "Listrr", "Mdblist", "SymlinkLibrary", "TraktContent"}

Processed(updated_item, next_service, items_to_submit, H) ==
  [updated_item |-> updated_item, next_service |-> next_service,
   items_to_submit |-> items_to_submit, heap |-> H]

no_further_processing(H) == Processed(None, "None", <<>>, H)

\* existing_item.fill_in_missing_children(item): the children (and their
\* children) that item holds and existing_item lacks are attached to it.
fill_in_missing_children(H, existing_item, item) ==
  [x \in Ids |->
     IF x \in Descendants(existing_item.id)
        /\ ~H[existing_item.h][x].present /\ H[item.h][x].present
     THEN H[item.h][x]
     ELSE H[existing_item.h][x]]

\* Lines 36-41: the merge of a freshly indexed item into the stored one,
\* done in place on the stored object.
MergeIndexed(H, existing_item, item) ==
  LET filled == IF Type(item.id) \in {"Show", "Season"}
                THEN fill_in_missing_children(H, existing_item, item)
                ELSE H[existing_item.h]
  IN [H EXCEPT ![existing_item.h] =
        [filled EXCEPT ![existing_item.id].indexed_at = Get(H, item).indexed_at]]

\* The children kept for their state alone, can_we_scrape not asked.
Eligible_unasked(H, rs, excluded) ==
  SelectSeq(rs, LAMBDA c : State(H, c) \notin excluded)

Eligible(H, rs, excluded) ==
  SelectSeq(rs, LAMBDA c : State(H, c) \notin excluded /\ can_we_scrape(H, c))

\* Lines 44-63 with a Movie or an Episode submitted whatever
\* can_we_scrape says of it.
ScrapeExpansion_unasked(H, item) ==
  IF Type(item.id) \in {"Movie", "Episode"} THEN <<item>>
  ELSE IF ~can_we_scrape(H, item) THEN <<>>
  ELSE IF Type(item.id) = "Show"
  THEN Eligible(H, children(H, item), {"Completed", "Downloaded", "Scraped"})
  ELSE IF Get(H, item).scraped_times >= EpisodeExpansion
  THEN Eligible(H, children(H, item), {"Completed", "Downloaded", "Scraped"})
  ELSE <<item>>

\* Lines 44-63 with the Season submitted whole whatever its scraped_times.
ScrapeExpansion_whole_season(H, item) ==
  IF ~can_we_scrape(H, item) THEN <<>>
  ELSE IF Type(item.id) \in {"Movie", "Episode"} THEN <<item>>
  ELSE IF Type(item.id) = "Show"
  THEN Eligible(H, children(H, item), {"Completed", "Downloaded", "Scraped"})
  ELSE <<item>>

ScrapeExpansion(H, item) ==
  IF ~can_we_scrape(H, item) THEN <<>>
  ELSE IF Type(item.id) \in {"Movie", "Episode"} THEN <<item>>
  ELSE IF Type(item.id) = "Show"
  THEN Eligible(H, children(H, item), {"Completed", "Downloaded", "Scraped"})
  ELSE IF Get(H, item).scraped_times >= EpisodeExpansion
  THEN Eligible(H, children(H, item), {"Completed", "Downloaded", "Scraped"})
  ELSE <<item>>

\* The first row returning updated_item as line 19 initialised it.
SourceRow_merging(H, existing_item, item) ==
  LET promoted == Type(item.id) = "Season"
      item1 == IF promoted THEN parent(H, item) ELSE item
      existing1 == IF promoted /\ existing_item # None
                   THEN parent(H, existing_item)
                   ELSE existing_item
  IN IF existing1 # None /\ ~TraktIndexer_should_submit(H, existing1)
     THEN no_further_processing(H)
     ELSE Processed(item, "TraktIndexer", <<item1>>, H)

\* The first row submitting the item as it came, a Season too.
SourceRow_unpromoted(H, existing_item, item) ==
  LET promoted == Type(item.id) = "Season"
      existing1 == IF promoted /\ existing_item # None
                   THEN parent(H, existing_item)
                   ELSE existing_item
  IN IF existing1 # None /\ ~TraktIndexer_should_submit(H, existing1)
     THEN no_further_processing(H)
     ELSE Processed(None, "TraktIndexer", <<item>>, H)

\* The first row without the freshness check of lines 29-30.
SourceRow_unchecked(H, existing_item, item) ==
  LET promoted == Type(item.id) = "Season"
      item1 == IF promoted THEN parent(H, item) ELSE item
  IN Processed(None, "TraktIndexer", <<item1>>, H)

SourceRow(H, existing_item, item) ==
  LET promoted == Type(item.id) = "Season"
      item1 == IF promoted THEN parent(H, item) ELSE item
      existing1 == IF promoted /\ existing_item # None
                   THEN parent(H, existing_item)
                   ELSE existing_item
  IN IF existing1 # None /\ ~TraktIndexer_should_submit(H, existing1)
     THEN no_further_processing(H)
     ELSE Processed(None, "TraktIndexer", <<item1>>, H)

\* The Indexer row without the short-circuit of lines 42-43.
IndexerRow_rescraping(H, existing_item, item) ==
  LET merge == existing_item # None /\ Get(H, existing_item).indexed_at = "null"
      H1 == IF merge THEN MergeIndexed(H, existing_item, item) ELSE H
      item1 == IF merge THEN existing_item ELSE item
  IN Processed(item1, "Scraping", ScrapeExpansion(H1, item1), H1)

IndexerRow(H, existing_item, item) ==
  LET merge == existing_item # None /\ Get(H, existing_item).indexed_at = "null"
      H1 == IF merge THEN MergeIndexed(H, existing_item, item) ELSE H
      item1 == IF merge THEN existing_item ELSE item
  IN IF existing_item # None /\ State(H1, existing_item) = "Completed"
     THEN Processed(existing_item, "None", <<>>, H1)
     ELSE Processed(item1, "Scraping", ScrapeExpansion(H1, item1), H1)

IndexedOnly(H, rs) ==
  SelectSeq(rs, LAMBDA c : State(H, c) = "Indexed" /\ can_we_scrape(H, c))

\* The PartiallyCompleted row keeping the seasons that are themselves
\* PartiallyCompleted.
PartiallyCompletedRow_keeping(H, item) ==
  Processed(item, "Scraping",
    IF Type(item.id) = "Show"
    THEN Eligible(H, children(H, item), {"Completed"})
    ELSE IF Type(item.id) = "Season"
    THEN IndexedOnly(H, children(H, item))
    ELSE <<>>, H)

PartiallyCompletedRow(H, item) ==
  Processed(item, "Scraping",
    IF Type(item.id) = "Show"
    THEN Eligible(H, children(H, item), {"Completed", "PartiallyCompleted"})
    ELSE IF Type(item.id) = "Season"
    THEN IndexedOnly(H, children(H, item))
    ELSE <<>>, H)

Ready(H, c) == Get(H, c).file /\ Get(H, c).folder

\* The Downloaded row returning every proposal, Symlinker.should_submit
\* not asked (lines 99-104 left out).
DownloadedRow_unfiltered(H, item) ==
  LET kids == children(H, item)
      open == SelectSeq(kids, LAMBDA c : ~Get(H, c).symlinked)
      proposed_submissions ==
        IF Type(item.id) \in {"Show", "Season"}
        THEN IF \A i \in DOMAIN open : Ready(H, open[i])
             THEN <<item>>
             ELSE SelectSeq(open, LAMBDA c : Ready(H, c))
        ELSE <<item>>
  IN Processed(item, "Symlinker", proposed_submissions, H)

DownloadedRow(H, item) ==
  LET kids == children(H, item)
      open == SelectSeq(kids, LAMBDA c : ~Get(H, c).symlinked)
      proposed_submissions ==
        IF Type(item.id) \in {"Show", "Season"}
        THEN IF \A i \in DOMAIN open : Ready(H, open[i])
             THEN <<item>>
             ELSE SelectSeq(open, LAMBDA c : Ready(H, c))
        ELSE <<item>>
  IN Processed(item, "Symlinker",
       SelectSeq(proposed_submissions, LAMBDA c : Symlinker_should_submit(H, c)), H)

\* The Scraped row handing the item to the Symlinker.
ScrapedRow_symlinking(H, item) == Processed(item, "Symlinker", <<item>>, H)

\* The Scraped row submitting nothing.
ScrapedRow_unsubmitted(H, item) == Processed(item, "Downloader", <<>>, H)

ScrapedRow(H, item) == Processed(item, "Downloader", <<item>>, H)

\* The Symlinked row handing the item to the Symlinker once more.
SymlinkedRow_again(H, item) == Processed(item, "Symlinker", <<item>>, H)

\* The Symlinked row submitting nothing.
SymlinkedRow_unsubmitted(H, item) == Processed(item, "PlexUpdater", <<>>, H)

SymlinkedRow(H, item) == Processed(item, "PlexUpdater", <<item>>, H)

\* The Completed row notifying the library again.
CompletedRow_notifying(H, item) == Processed(item, "PlexUpdater", <<item>>, H)

\* Lines 118-119: a Completed item needs nothing more.
CompletedRow(H, item) == no_further_processing(H)

\* Line 24: the events the first row takes.
IsSourceEvent(H, emitted_by, item) ==
  emitted_by \in source_services \/ State(H, item) = "Unknown"

\* The router looking at the state of the item before it looks at the
\* Indexer as emitter: the state rows put above the Indexer row, and the
\* state Unknown below it.
process_event_by_state(H, existing_item, emitted_by, item) ==
  IF emitted_by \in source_services
  THEN SourceRow(H, existing_item, item)
  ELSE IF State(H, item) = "PartiallyCompleted" THEN PartiallyCompletedRow(H, item)
  ELSE IF State(H, item) = "Scraped" THEN ScrapedRow(H, item)
  ELSE IF State(H, item) = "Downloaded" THEN DownloadedRow(H, item)
  ELSE IF State(H, item) = "Symlinked" THEN SymlinkedRow(H, item)
  ELSE IF State(H, item) = "Completed" THEN CompletedRow(H, item)
  ELSE IF emitted_by = "TraktIndexer" \/ State(H, item) = "Indexed"
  THEN IndexerRow(H, existing_item, item)
  ELSE SourceRow(H, existing_item, item)

\* The second branch on States.Downloaded (lines 106-112) is never taken.
process_event(H, existing_item, emitted_by, item) ==
  IF IsSourceEvent(H, emitted_by, item)
  THEN SourceRow(H, existing_item, item)
  ELSE IF emitted_by = "TraktIndexer" \/ State(H, item) = "Indexed"
  THEN IndexerRow(H, existing_item, item)
  ELSE IF State(H, item) = "PartiallyCompleted" THEN PartiallyCompletedRow(H, item)
  ELSE IF State(H, item) = "Scraped" THEN ScrapedRow(H, item)
  ELSE IF State(H, item) = "Downloaded" THEN DownloadedRow(H, item)
  ELSE IF State(H, item) = "Symlinked" THEN SymlinkedRow(H, item)
  ELSE CompletedRow(H, item)

\* ------------------------------------------------------------------ state
VARIABLES
  heap,         \* heap[0]: the objects of media_items; heap[k>0]: other trees
  event_queue,  \* Program.event_queue: events (emitted_by, item), FIFO
  pool,         \* futures submitted to the executor and not yet called back
  wanted,       \* the title the content services and the API ask for
  plan,         \* the requests and sweeps the scenario follows
  requests,     \* source ticks and add_to_queue calls so far
  sweeps,       \* firings of _retry_library so far
  failures,     \* service invocations that raised so far
  ages,         \* times the freshness intervals elapsed so far
  cycle,        \* what the last dispatcher cycle saw, decided and submitted
  call,         \* what the last pool callback saw and enqueued
  scrapes,      \* submissions of the Season to the Scraper so far
  emitters,     \* emitters of the events processed so far of a wanted title
                \* that the container did not hold at the start
  running,      \* Program.running
  life,         \* the threads of the program: the caller inside start(), the
                \* dispatcher thread inside run(), the executor, the scheduler
  reply         \* what the last call of add_to_queue was given and returned

vars ==
  <<heap, event_queue, pool, wanted, plan, requests, sweeps, failures, ages,
    cycle, call, scrapes, emitters, running, life, reply>>

Heaps == 0 .. MaxCopies

Event(emitted_by, item) == [emitted_by |-> emitted_by, item |-> item]

Task(service, item) == [service |-> service, item |-> item]

NoCycle ==
  [emitted_by |-> "None", item |-> None, type |-> "None", state |-> "None",
   existing_item |-> None, routed |-> None, checked |-> None, fresh |-> FALSE,
   updated_item |-> None, next_service |-> "None", items_to_submit |-> <<>>,
   submissions |-> <<>>, handed |-> <<>>]

NoCall == [service |-> "None", item |-> None, raised |-> FALSE,
           items |-> <<>>, yielded |-> 0, enqueued |-> <<>>,
           before |-> "None", after |-> "None"]

NoReply == [item |-> "None", returned |-> FALSE]

NoFuture == [task |-> Task("None", None), done |-> FALSE]

\* The program as __init__ leaves it (lines 33-41): no thread started, no
\* executor and no scheduler yet.
Constructed(valid) ==
  [main |-> "idle", thread |-> "unstarted", executor |-> "none",
   scheduler |-> "none", valid |-> valid, error |-> "None",
   starts |-> 0, stops |-> 0, changes |-> 0,
   taken |-> Event("None", None), merged |-> None, todo |-> <<>>,
   future |-> NoFuture, upserts |-> 0, inline |-> FALSE]

\* The program once start() has returned and the dispatcher thread is in
\* its loop.
Started ==
  [Constructed(TRUE) EXCEPT !.thread = "testing", !.executor = "up",
                            !.scheduler = "running", !.starts = 1]

\* ------------------------------------------------------ object references
\* The trees the locals of the dispatcher thread refer to, l being the
\* program's threads: the event taken, the merged item, the submissions
\* still to make and the argument of the future just submitted.
Held(l) ==
  {l.taken.item.h, l.merged.h, l.future.task.item.h}
    \cup {l.todo[j].item.h : j \in DOMAIN l.todo}

ReferencedBy(q, p, l) ==
  {q[i].item.h : i \in DOMAIN q} \cup {p[i].item.h : i \in DOMAIN p}
    \cup Held(l) \cup {0}

Referenced(q, p) == ReferencedBy(q, p, life)

\* A tree no event, no task and no local refers to is garbage.
CollectFor(H, q, p, l) ==
  [k \in Heaps |-> IF k \in ReferencedBy(q, p, l) THEN H[k] ELSE EmptyTree]

Collect(H, q, p) == CollectFor(H, q, p, life)

FreeHeaps(q, p) == Heaps \ Referenced(q, p)

Lowest(S) == CHOOSE k \in S : \A j \in S : k <= j

Remove(s, i) == [j \in 1 .. (Len(s) - 1) |-> IF j < i THEN s[j] ELSE s[j + 1]]

\* ----------------------------------------------------------- the container
\* MediaItemContainer.upsert, field by field: a non-null incoming value
\* wins; symlinked and scraped_times are never null.
MergeFields(stored, incoming) ==
  [present |-> TRUE,
   indexed_at |-> IF incoming.indexed_at # "null" THEN incoming.indexed_at
                  ELSE stored.indexed_at,
   scraped_at |-> IF incoming.scraped_at # "null" THEN incoming.scraped_at
                  ELSE stored.scraped_at,
   scraped_times |-> incoming.scraped_times,
   streams |-> incoming.streams \/ stored.streams,
   file |-> incoming.file \/ stored.file,
   folder |-> incoming.folder \/ stored.folder,
   symlinked |-> incoming.symlinked,
   update_folder |-> IF incoming.update_folder # "null" THEN incoming.update_folder
                     ELSE stored.update_folder]

\* The ids upsert(item) inserts: those of item's tree the container lacks.
Inserted(H, item) ==
  IF item.h = 0 THEN {}
  ELSE {x \in Subtree(item.id) : H[item.h][x].present /\ ~H[0][x].present}

upsert(H, item) ==
  IF item.h = 0 THEN H
  ELSE [H EXCEPT ![0] =
          [x \in Ids |->
             IF x \in Subtree(item.id) /\ H[item.h][x].present
             THEN IF H[0][x].present THEN MergeFields(H[0][x], H[item.h][x])
                  ELSE H[item.h][x]
             ELSE H[0][x]]]

\* media_items.get(item_id, None)
get(H, id) == IF H[0][id].present THEN Ref(0, id) ELSE None

\* An inserted object is from then on the container's object.
Alias(r, item, ins) == IF r.h = item.h /\ r.id \in ins THEN Ref(0, r.id) ELSE r

AliasEvents(q, item, ins) ==
  [i \in DOMAIN q |-> [q[i] EXCEPT !.item = Alias(q[i].item, item, ins)]]

\* media_items.get_incomplete_items(), in the container's order.
StoredOrder == <<"m1", "sh1", "s1", "e1", "e2", "s2", "e3">>

\* The enumeration giving every stored item, the Completed ones too.
get_incomplete_items_all(H) ==
  SelectSeq(StoredOrder, LAMBDA x : H[0][x].present)

get_incomplete_items(H) ==
  SelectSeq(StoredOrder, LAMBDA x : H[0][x].present /\ StateOf(H[0], x) # "Completed")

\* ------------------------------------------------------------ the services
Touch(H, r, f(_)) ==
  [H EXCEPT ![r.h] =
     [x \in Ids |-> IF x \in Subtree(r.id) /\ H[r.h][x].present
                    THEN f(H[r.h][x]) ELSE H[r.h][x]]]

Bump(n) == IF n < MaxScraped THEN n + 1 ELSE n

\* Scraping.run(item): counts the attempt on the item; a hit selects a
\* torrent for the item and everything it contains.
Scraping_run(H, r, found) ==
  LET H1 == IF found THEN Touch(H, r, LAMBDA x : [x EXCEPT !.streams = TRUE]) ELSE H
  IN [H1 EXCEPT ![r.h][r.id].scraped_at = "recent",
                ![r.h][r.id].scraped_times = Bump(@)]

\* Downloader.run(item): resolves file and folder.
Downloader_run(H, r) ==
  Touch(H, r, LAMBDA x : [x EXCEPT !.file = TRUE, !.folder = TRUE])

\* Symlinker.run(item): links what has a file.
Symlinker_run(H, r) ==
  Touch(H, r, LAMBDA x : IF x.file /\ x.folder THEN [x EXCEPT !.symlinked = TRUE] ELSE x)

\* PlexUpdater.run(item): the library now knows what is linked.
PlexUpdater_run(H, r) ==
  Touch(H, r, LAMBDA x : IF x.symlinked THEN [x EXCEPT !.update_folder = "updated"] ELSE x)

\* TraktIndexer.run(item): a new object for the same title, with its
\* seasons and episodes, indexed now.
Indexed(id) ==
  [x \in Ids |-> IF x \in Subtree(id) \cap Aired
                 THEN [NewItem EXCEPT !.indexed_at = "recent"]
                 ELSE NoItem]

\* A content service's item: a new object holding the id alone.
Bare(id) == [x \in Ids |-> IF x = id THEN NewItem ELSE NoItem]

\* cycle and call hold what the step just taken observed, and nothing of
\* the steps before it.
Unobserved == cycle' = NoCycle /\ call' = NoCall /\ reply' = NoReply

\* ------------------------------------------------------------ the scheduler
\* The container as start() finds it: empty, or the snapshot that an
\* earlier run of the program left.
OldItem(times) ==
  [NewItem EXCEPT !.indexed_at = "old", !.scraped_at = IF times > 0 THEN "old" ELSE "null",
                  !.scraped_times = times]

Linked(x) == [x EXCEPT !.streams = TRUE, !.file = TRUE, !.folder = TRUE, !.symlinked = TRUE]

MovieSnapshot(x) == [EmptyTree EXCEPT !["m1"] = x]

ShowSnapshot(times) ==
  [EmptyTree EXCEPT !["sh1"] = OldItem(0), !["s1"] = OldItem(times), !["e1"] = OldItem(0)]

\* A scenario: the snapshot, the title the content services ask for, and
\* how many source requests and retry sweeps are followed from it.
Scenario(title, tree, scraped, nrequests, nsweeps) ==
  [wanted |-> title, tree |-> tree, scrapes |-> scraped,
   plan |-> [requests |-> nrequests, sweeps |-> nsweeps, known |-> tree[title].present,
             asks |-> {title}, stops |-> 1]]

Scenarios ==
  { Scenario("m1", EmptyTree, 0, MaxRequests, MaxSweeps),
    Scenario("m1", MovieSnapshot(OldItem(1)), 0, MaxRequests, MaxSweeps),
    Scenario("m1", MovieSnapshot(Linked(OldItem(1))), 0, MaxRequests, MaxSweeps),
    Scenario("m1", MovieSnapshot([Linked(OldItem(1)) EXCEPT !.update_folder = "updated"]),
             0, MaxRequests, MaxSweeps),
    Scenario("sh1", EmptyTree, 0, MaxRequests, 0),
    Scenario("sh1", ShowSnapshot(SeasonCutoff - 1), SeasonCutoff - 1, 0, MaxSweeps),
    Scenario("sh1", ShowSnapshot(SeasonCutoff), SeasonCutoff, 0, MaxSweeps) }

Start(scenario) ==
  /\ heap = [k \in Heaps |-> IF k = 0 THEN scenario.tree ELSE EmptyTree]
  /\ wanted = scenario.wanted
  /\ scrapes = scenario.scrapes
  /\ plan = scenario.plan
  /\ event_queue = <<>>
  /\ pool = <<>>
  /\ requests = 0
  /\ sweeps = 0
  /\ failures = 0
  /\ ages = 0
  /\ cycle = NoCycle
  /\ call = NoCall
  /\ emitters = <<>>
  /\ running = TRUE
  /\ life = Started
  /\ reply = NoReply

Init == \E scenario \in Scenarios : Start(scenario)

\* The scheduled job of a content service: _submit_job(service_cls, None).
SourceTick ==
  /\ life.scheduler = "running"
  /\ requests < plan.requests
  /\ Len(pool) < MaxPool
  /\ requests' = requests + 1
  /\ pool' = Append(pool, Task("Overseerr", None))
  /\ Unobserved
  /\ UNCHANGED <<heap, event_queue, running, life, wanted, plan, sweeps, failures, ages, scrapes, emitters>>

\* Program._retry_library
_retry_library ==
  LET items_to_submit == get_incomplete_items(heap)
  IN /\ Len(event_queue) + Len(items_to_submit) <= MaxQueue
     /\ event_queue' = event_queue \o
          [i \in DOMAIN items_to_submit |-> Event("Program", Ref(0, items_to_submit[i]))]
     /\ Unobserved
     /\ UNCHANGED <<heap, pool, running, life, wanted, plan, requests, failures, ages, scrapes, emitters>>

\* A firing of the sweep's job, of the few that a bounded run follows.
RetryLibrary ==
  /\ life.scheduler = "running"
  /\ sweeps < plan.sweeps
  /\ sweeps' = sweeps + 1
  /\ _retry_library

\* The argument of add_to_queue named x: a new object of that id, under
\* new objects for its parents; nothing of the kind when x names no item.
Asked(x) ==
  [y \in Ids |-> IF y = x \/ (x \in Ids /\ x \in Descendants(y)) THEN NewItem ELSE NoItem]

\* add_to_queue taking whatever it is given.
Accepted_unchecked(x) == TRUE

\* Line 246: isinstance(item, Union[Movie, Show, Season, Episode]).
Accepted(x) == x \in Ids /\ Type(x) \in {"Movie", "Show", "Season", "Episode"}

\* Program.add_to_queue(item), the argument being what x names.
add_to_queue(x) ==
  /\ IF Accepted(x)
     THEN /\ Len(event_queue) < MaxQueue
          /\ FreeHeaps(event_queue, pool) # {}
          /\ LET k == Lowest(FreeHeaps(event_queue, pool))
             IN /\ heap' = [heap EXCEPT ![k] = Asked(x)]
                /\ event_queue' = Append(event_queue, Event("Program", Ref(k, x)))
          /\ reply' = [item |-> x, returned |-> TRUE]
     ELSE /\ UNCHANGED <<heap, event_queue>>
          /\ reply' = [item |-> x, returned |-> FALSE]
  /\ cycle' = NoCycle
  /\ call' = NoCall
  /\ UNCHANGED <<pool, running, life, wanted, plan, sweeps, failures, ages, scrapes, emitters>>

\* A call of add_to_queue by the API, with one of the values the scenario
\* lets it pass.
AddToQueue ==
  /\ requests < plan.requests
  /\ requests' = requests + 1
  /\ \E x \in plan.asks : add_to_queue(x)

\* The intervals of the freshness checks elapse.
Aged(x) ==
  [x EXCEPT !.indexed_at = IF @ = "recent" THEN "old" ELSE @,
            !.scraped_at = IF @ = "recent" THEN "old" ELSE @]

Elapse ==
  /\ heap' = [k \in Heaps |-> [x \in Ids |-> Aged(heap[k][x])]]
  /\ heap' # heap
  /\ Unobserved
  /\ UNCHANGED <<event_queue, pool, running, life, wanted, plan, requests, sweeps, failures, scrapes, emitters>>

TimePasses ==
  /\ ages < MaxAges
  /\ ages' = ages + 1
  /\ Elapse

\* ---------------------------------------------------------- the worker pool
\* How a run ends: it returns, it raises before it has done anything, or
\* (a content service, which yields one item after the other) it raises
\* after items were yielded, or it returns having yielded, before its
\* item, a value that is no item.
Outcomes == {"ok", "raise", "raise_late", "stray"}

\* Line 187: isinstance(item, MediaItem).
IsMediaItem(r) == r.id \in Ids

StoredState(H, r) ==
  IF r # None /\ H[0][r.id].present THEN StateOf(H[0], r.id) ELSE "None"

\* The events put by a callback that gives up the whole result when the
\* service raised.
Enqueued_unless_raised(service, items, raised) ==
  LET kept == SelectSeq(items, IsMediaItem)
  IN IF raised THEN <<>> ELSE [j \in DOMAIN kept |-> Event(service, kept[j])]

\* The events put by a callback that gives up the rest of the result at
\* the first value that is no item.
Enqueued_until_stray(service, items, raised) ==
  LET first == {j \in DOMAIN items : ~IsMediaItem(items[j])}
      n == IF first = {} THEN Len(items)
           ELSE (CHOOSE j \in first : \A k \in first : j <= k) - 1
  IN [j \in 1 .. n |-> Event(service, items[j])]

\* Lines 186-190: one event for each item future.result() yielded, put as
\* it is yielded, so that the items yielded before an exception have
\* their events whether the service raised or not; a value that is no
\* MediaItem is logged and passed over.
Enqueued(service, items, raised) ==
  LET kept == SelectSeq(items, IsMediaItem)
  IN [j \in DOMAIN kept |-> Event(service, kept[j])]

\* Program._process_future_item for the future of pool[i]: the service ran
\* (leaving the heap as H1), yielded `items`, and raised or not.
Callback(i, H1, items, raised) ==
  LET task == pool[i]
      p1 == Remove(pool, i)
      q1 == event_queue \o Enqueued(task.service, items, raised)
  IN /\ raised => failures < MaxFailures
     /\ Len(q1) <= MaxQueue
     /\ pool' = p1
     /\ event_queue' = q1
     /\ heap' = Collect(H1, q1, p1)
     /\ failures' = IF raised THEN failures + 1 ELSE failures
     /\ call' = [service |-> task.service, item |-> task.item, raised |-> raised,
                 items |-> items, yielded |-> Len(items),
                 enqueued |-> SubSeq(event_queue', Len(event_queue) + 1, Len(event_queue')),
                 before |-> StoredState(heap, task.item),
                 after |-> StoredState(H1, task.item)]
     /\ cycle' = NoCycle
     /\ reply' = NoReply
     /\ UNCHANGED <<running, life, wanted, plan, requests, sweeps, ages, scrapes, emitters>>

\* A service that works on the item it is given, in place, and yields it.
RunOn(i, service, H1, outcome) ==
  /\ pool[i].service = service
  /\ pool[i].item # None
  /\ outcome \in {"ok", "raise"}
  /\ Callback(i, IF outcome = "raise" THEN heap ELSE H1,
              IF outcome = "raise" THEN <<>> ELSE <<pool[i].item>>,
              outcome = "raise")

WorkerSource(i, outcome) ==
  /\ pool[i].service \in source_services
  /\ IF outcome = "raise" THEN Callback(i, heap, <<>>, TRUE)
     ELSE /\ FreeHeaps(event_queue, Remove(pool, i)) # {}
          /\ LET k == Lowest(FreeHeaps(event_queue, Remove(pool, i)))
             IN Callback(i, [heap EXCEPT ![k] = Bare(wanted)],
                         IF outcome = "stray" THEN <<None, Ref(k, wanted)>>
                         ELSE <<Ref(k, wanted)>>,
                         outcome = "raise_late")

WorkerIndexer(i, outcome) ==
  /\ pool[i].service = "TraktIndexer"
  /\ outcome \in {"ok", "raise"}
  /\ IF outcome = "raise" \/ pool[i].item = None THEN Callback(i, heap, <<>>, TRUE)
     ELSE /\ FreeHeaps(event_queue, Remove(pool, i)) # {}
          /\ LET k == Lowest(FreeHeaps(event_queue, Remove(pool, i)))
             IN Callback(i, [heap EXCEPT ![k] = Indexed(pool[i].item.id)],
                         <<Ref(k, pool[i].item.id)>>, outcome # "ok")

WorkerScraping(i, found, outcome) ==
  RunOn(i, "Scraping", Scraping_run(heap, pool[i].item, found), outcome)

WorkerDownloader(i, outcome) ==
  RunOn(i, "Downloader", Downloader_run(heap, pool[i].item), outcome)

WorkerSymlinker(i, outcome) ==
  RunOn(i, "Symlinker", Symlinker_run(heap, pool[i].item), outcome)

WorkerPlexUpdater(i, outcome) ==
  RunOn(i, "PlexUpdater", PlexUpdater_run(heap, pool[i].item), outcome)

\* ----------------------------------------------------------- the dispatcher
\* The skip with the comparison of line 229 made strict.
Skipped_above(next_service, type, scraped_times) ==
  type = "Season" /\ next_service = "Scraping" /\ scraped_times > SeasonCutoff

\* Lines 228-230 of Program.run: the submission the dispatcher skips.
Skipped(next_service, type, scraped_times) ==
  type = "Season" /\ next_service = "Scraping" /\ scraped_times >= SeasonCutoff

TypeOf(r) == IF r = None THEN "None" ELSE Type(r.id)

TimesOf(H, r) == IF r = None THEN 0 ELSE Get(H, r).scraped_times

\* The work of one iteration of Program.run on `event`, `existing_item`
\* being what the container holds under its id and r what process_event
\* returned for them.
Cycle(event, existing_item, r) ==
  LET ins == IF r.updated_item # None THEN Inserted(r.heap, r.updated_item) ELSE {}
      H2 == IF r.updated_item # None THEN upsert(r.heap, r.updated_item) ELSE r.heap
      subs == [j \in DOMAIN r.items_to_submit |->
                 Alias(r.items_to_submit[j], r.updated_item, ins)]
      handed == SelectSeq(subs,
                  LAMBDA x : ~Skipped(r.next_service, TypeOf(x), TimesOf(H2, x)))
      p1 == pool \o [j \in DOMAIN handed |-> Task(r.next_service, handed[j])]
      q1 == AliasEvents(Tail(event_queue), r.updated_item, ins)
      routed == IF Type(event.item.id) = "Season"
                THEN parent(heap, event.item) ELSE event.item
      checked == IF Type(event.item.id) = "Season" /\ existing_item # None
                 THEN parent(heap, existing_item) ELSE existing_item
  IN [event_queue |-> q1,
      pool |-> [j \in DOMAIN p1 |->
                  [p1[j] EXCEPT !.item = Alias(p1[j].item, r.updated_item, ins)]],
      heap |-> H2,
      scrapes |-> scrapes + Len(SelectSeq(handed,
                    LAMBDA x : r.next_service = "Scraping" /\ TypeOf(x) = "Season")),
      cycle |-> [emitted_by |-> event.emitted_by, item |-> event.item,
                 type |-> Type(event.item.id), state |-> State(heap, event.item),
                 existing_item |-> existing_item, routed |-> routed,
                 checked |-> checked,
                 fresh |-> checked # None /\ ~TraktIndexer_should_submit(heap, checked),
                 updated_item |-> r.updated_item, next_service |-> r.next_service,
                 items_to_submit |-> r.items_to_submit,
                 submissions |-> [j \in DOMAIN subs |->
                                    [item |-> subs[j], type |-> TypeOf(subs[j]),
                                     scraped_times |-> TimesOf(H2, subs[j])]],
                 handed |-> <<>>]]

\* One iteration of Program.run with an event in the queue.
Dispatch ==
  /\ running
  /\ event_queue # <<>>
  /\ \E event \in {Head(event_queue)} :
     \E existing_item \in {get(heap, event.item.id)} :
     \E r \in {process_event(heap, existing_item, event.emitted_by, event.item)} :
     \E c \in {Cycle(event, existing_item, r)} :
       /\ Len(c.pool) <= MaxPool
       /\ event_queue' = c.event_queue
       /\ pool' = c.pool
       /\ heap' = Collect(c.heap, c.event_queue, c.pool)
       /\ scrapes' = c.scrapes
       /\ cycle' = [c.cycle EXCEPT
                      !.handed = SubSeq(c.pool, Len(pool) + 1, Len(c.pool))]
  /\ emitters' = IF /\ Head(event_queue).item.id = wanted
                     /\ ~plan.known
                     /\ Len(emitters) < MaxLog
                  THEN Append(emitters, Head(event_queue).emitted_by)
                  ELSE emitters
  /\ call' = NoCall
  /\ reply' = NoReply
  /\ UNCHANGED <<running, life, wanted, plan, requests, sweeps, failures, ages>>

\* Program.clear_queue: every waiting event is taken off the queue.
clear_queue == event_queue' = <<>>

\* Program.stop: the flag is cleared and the queue emptied; the executor
\* and the scheduler, if there are any and they are up, are shut down with
\* wait=False, so that no job of the scheduler starts any more, while the
\* tasks already submitted to the pool go on, their callbacks with them.
stop ==
  /\ life.stops < plan.stops
  /\ running' = FALSE
  /\ clear_queue
  /\ heap' = Collect(heap, <<>>, pool)
  /\ life' = [life EXCEPT
                !.stops = @ + 1,
                !.executor = IF @ = "up" THEN "shutdown" ELSE @,
                !.scheduler = IF @ = "running" THEN "shutdown" ELSE @]
  /\ Unobserved
  /\ UNCHANGED <<pool, wanted, plan, requests, sweeps, failures, ages, scrapes, emitters>>

Next ==
  \/ stop
  \/ SourceTick
  \/ RetryLibrary
  \/ AddToQueue
  \/ TimePasses
  \/ Dispatch
  \/ \E i \in DOMAIN pool, outcome \in Outcomes : WorkerSource(i, outcome)
  \/ \E i \in DOMAIN pool, outcome \in Outcomes : WorkerIndexer(i, outcome)
  \/ \E i \in DOMAIN pool, found \in BOOLEAN, outcome \in Outcomes :
       WorkerScraping(i, found, outcome)
  \/ \E i \in DOMAIN pool, outcome \in Outcomes : WorkerDownloader(i, outcome)
  \/ \E i \in DOMAIN pool, outcome \in Outcomes : WorkerSymlinker(i, outcome)
  \/ \E i \in DOMAIN pool, outcome \in Outcomes : WorkerPlexUpdater(i, outcome)

Spec == Init /\ [][Next]_vars

\* ------------------------------------------------ the program left to run
\* The sweep fires every 600 s for as long as the program runs, which is
\* long after the work of the sweep before it has come to rest.
RetryLibraryForever ==
  /\ event_queue = <<>> /\ pool = <<>>
  /\ get_incomplete_items(heap) # <<>>
  /\ _retry_library
  /\ UNCHANGED sweeps

TimePassesForever == Elapse /\ UNCHANGED ages

Succeeds(service) ==
  \E i \in DOMAIN pool :
    /\ pool[i].service = service
    /\ \/ WorkerSource(i, "ok")
       \/ WorkerIndexer(i, "ok")
       \/ WorkerScraping(i, TRUE, "ok")
       \/ WorkerDownloader(i, "ok")
       \/ WorkerSymlinker(i, "ok")
       \/ WorkerPlexUpdater(i, "ok")

Fails ==
  \E i \in DOMAIN pool :
    \/ WorkerSource(i, "raise")
    \/ WorkerIndexer(i, "raise")
    \/ WorkerScraping(i, FALSE, "raise")
    \/ WorkerDownloader(i, "raise")
    \/ WorkerSymlinker(i, "raise")
    \/ WorkerPlexUpdater(i, "raise")

FindsNothing == \E i \in DOMAIN pool : WorkerScraping(i, FALSE, "ok")

Services ==
  {"Overseerr", "TraktIndexer", "Scraping", "Downloader", "Symlinker", "PlexUpdater"}

\* The scenarios in which the sweep takes part.
ScenariosLive == {scenario \in Scenarios : scenario.plan.sweeps > 0}

InitLive == \E scenario \in ScenariosLive : Start(scenario)

NextLive ==
  \/ SourceTick
  \/ RetryLibraryForever
  \/ TimePassesForever
  \/ Dispatch
  \/ \E service \in Services : Succeeds(service)
  \/ Fails
  \/ FindsNothing

\* The program does not stop while a job of the scheduler is due, an event
\* is in the queue or a task is in the pool; time goes on; and services
\* eventually succeed: the Scraper, which may find nothing run after run,
\* finds streams in the end.
Work ==
  \/ SourceTick
  \/ RetryLibraryForever
  \/ Dispatch
  \/ \E service \in Services \ {"Scraping"} : Succeeds(service)

SpecLive ==
  /\ InitLive /\ [][NextLive]_vars
  /\ WF_vars(Work)
  /\ WF_vars(TimePassesForever)
  /\ SF_vars(Succeeds("Scraping"))

\* ------------------------------------------- one cycle, for every event
\* The stages of a Movie or an Episode: new, indexed (long ago, or just
\* now), scraped in vain a moment ago, scraped, downloaded, symlinked and
\* completed.
Completed(x) == [Linked(x) EXCEPT !.update_folder = "updated"]

Stages ==
  { NewItem,
    OldItem(0),
    [OldItem(0) EXCEPT !.indexed_at = "recent"],
    [OldItem(1) EXCEPT !.scraped_at = "recent"],
    [OldItem(1) EXCEPT !.streams = TRUE],
    [OldItem(1) EXCEPT !.streams = TRUE, !.file = TRUE, !.folder = TRUE],
    Linked(OldItem(1)),
    Completed(OldItem(1)) }

\* The header of a Show or a Season: indexed or not, and scraped `times`
\* times, the last time long ago or a moment ago.  An item with scraped_at
\* "recent" is one that Scraping.can_we_scrape rejects.
Header(indexed_at, times, scraped_at) ==
  [NewItem EXCEPT !.indexed_at = indexed_at, !.scraped_times = times,
                  !.scraped_at = IF times = 0 THEN "null" ELSE scraped_at]

ShowHeaders ==
  {Header(i, n, "recent") : i \in {"null", "old", "recent"}, n \in {0, 1}}

\* A Season also as the Downloader and the Symlinker leave the one they
\* were given: with file and folder, and symlinked.
Fetched(x) == [x EXCEPT !.streams = TRUE, !.file = TRUE, !.folder = TRUE]

SeasonHeaders ==
  {Header(i, n, a) : i \in {"null", "old"},
                     n \in {0, SeasonCutoff, EpisodeExpansion}, a \in {"old", "recent"}}
  \cup {Fetched(OldItem(1)), Linked(OldItem(1))}

\* The second episode of the first season, and the second season with its
\* episode, as an earlier run may have left them: absent, Indexed or
\* Completed.
Others == {NoItem, OldItem(0), Completed(OldItem(1))}

\* An Episode that the library seed found linked: no file or folder of a
\* download is known for it.
Seeded == [NewItem EXCEPT !.symlinked = TRUE, !.update_folder = "updated"]

\* The graphs of the show: the Show as a library seed holds it, without a
\* season yet, and the Show with its seasons at every stage.
ShowTrees ==
  {[EmptyTree EXCEPT !["sh1"] = NewItem]} \cup
  {[EmptyTree EXCEPT !["sh1"] = sh, !["s1"] = s, !["e1"] = a, !["e2"] = b,
                     !["s2"] = IF c.present THEN OldItem(0) ELSE NoItem,
                     !["e3"] = c] :
     sh \in ShowHeaders, s \in SeasonHeaders, a \in Stages,
     b \in Others \cup {Seeded}, c \in Others}

MovieTrees == {MovieSnapshot(a) : a \in Stages}

\* The graphs holding x, and the graphs of the title x (the empty one too).
Holding(x) == {tree \in ShowTrees \cup MovieTrees : tree[x].present}

Root(tree) == IF tree["m1"].present THEN "m1" ELSE "sh1"

About(x) ==
  {tree \in ShowTrees \cup MovieTrees \cup {EmptyTree} : tree = EmptyTree \/ Root(tree) = x}

StartRouter(stored, detached, emitted_by, item) ==
  /\ heap = [k \in Heaps |-> IF k = 0 THEN stored
                             ELSE IF k = 1 THEN detached ELSE EmptyTree]
  /\ event_queue = <<Event(emitted_by, item)>>
  /\ wanted = IF Type(item.id) = "Movie" THEN "m1" ELSE "sh1"
  /\ plan = [requests |-> 0, sweeps |-> 0, known |-> TRUE, asks |-> {}, stops |-> 0]
  /\ scrapes = 0
  /\ pool = <<>>
  /\ requests = 0
  /\ sweeps = 0
  /\ failures = 0
  /\ ages = 0
  /\ cycle = NoCycle
  /\ call = NoCall
  /\ emitters = <<>>
  /\ running = TRUE
  /\ life = Started
  /\ reply = NoReply

\* An event for a stored object: of the sweep, or of a service that
\* worked on the object.
InPlace ==
  \E x \in {"m1", "sh1", "s1", "e1"} :
  \E tree \in Holding(x),
     emitted_by \in {"Program", "TraktIndexer", "Scraping", "PlexUpdater"} :
    StartRouter(tree, EmptyTree, emitted_by, Ref(0, x))

\* An event of a service that worked on an object equal to the stored one
\* and not the stored one.
Copies ==
  \E x \in {"m1", "sh1", "s1", "e1"} :
  \E tree \in Holding(x), emitted_by \in {"TraktIndexer", "Scraping", "PlexUpdater"} :
    StartRouter(tree, tree, emitted_by, Ref(1, x))

\* A title that a content service or add_to_queue names, known or not.
Requested ==
  \E x \in {"m1", "sh1"} :
  \E tree \in About(x), emitted_by \in {"Overseerr", "Program"} :
    StartRouter(tree, Bare(x), emitted_by, Ref(1, x))

\* What the metadata indexer yields for a title, processed at once or
\* after the freshness interval.
Yielded ==
  \E x \in {"m1", "sh1"} :
  \E tree \in About(x), fresh \in {Indexed(x), [y \in Ids |-> Aged(Indexed(x)[y])]} :
    StartRouter(tree, fresh, "TraktIndexer", Ref(1, x))

InitRouter == InPlace \/ Copies \/ Requested \/ Yielded

\* The dispatcher takes the event, and the cycle is looked at.
SpecRouter == InitRouter /\ [][Dispatch]_vars

\* ------------------------------------- the sweep and the API, every graph
\* What the API may pass to add_to_queue: a Movie, a Show, a Season, an
\* Episode, and a value that is no item.
Arguments == {"m1", "sh1", "s1", "e1", "junk"}

StartEntry(stored) ==
  /\ heap = [k \in Heaps |-> IF k = 0 THEN stored ELSE EmptyTree]
  /\ event_queue = <<>>
  /\ wanted = Root(stored)
  /\ plan = [requests |-> MaxRequests, sweeps |-> MaxSweeps, known |-> TRUE,
             asks |-> Arguments, stops |-> 0]
  /\ scrapes = 0
  /\ pool = <<>>
  /\ requests = 0
  /\ sweeps = 0
  /\ failures = 0
  /\ ages = 0
  /\ cycle = NoCycle
  /\ call = NoCall
  /\ emitters = <<>>
  /\ running = TRUE
  /\ life = Started
  /\ reply = NoReply

InitEntry == \E stored \in ShowTrees \cup MovieTrees : StartEntry(stored)

\* The sweep fires and the API is called, in either order, and the queue
\* is looked at.
NextEntry == RetryLibrary \/ AddToQueue

SpecEntry == InitEntry /\ [][NextEntry]_vars

\* ------------------------------------------- the threads of the program
\* The caller of start(), the caller of stop(), the settings observer, the
\* scheduler, the workers of the pool and the dispatcher thread, each
\* taking one step at a time.

\* Lines 91-131 of Program.start: the wait for a valid registry is over,
\* and a new executor and a new scheduler replace whatever was there.
StartPrepare ==
  /\ life.main = "idle"
  /\ life.starts < MaxStarts
  /\ life.valid
  /\ life' = [life EXCEPT !.main = "start_thread", !.executor = "up",
                          !.scheduler = "ready"]
  /\ Unobserved
  /\ UNCHANGED <<heap, event_queue, pool, running, wanted, plan, requests, sweeps,
                 failures, ages, scrapes, emitters>>

\* Line 133, super().start(): a thread is started once; on a thread that
\* was started before the call raises RuntimeError and start() ends there.
StartThread ==
  /\ life.main = "start_thread"
  /\ life' = IF life.thread = "unstarted"
             THEN [life EXCEPT !.thread = "testing", !.main = "start_scheduler"]
             ELSE [life EXCEPT !.error = "RuntimeError", !.main = "idle",
                               !.starts = @ + 1]
  /\ Unobserved
  /\ UNCHANGED <<heap, event_queue, pool, running, wanted, plan, requests, sweeps,
                 failures, ages, scrapes, emitters>>

\* Line 134, self.scheduler.start().
StartScheduler ==
  /\ life.main = "start_scheduler"
  /\ life' = [life EXCEPT !.scheduler = "running", !.main = "start_flag"]
  /\ Unobserved
  /\ UNCHANGED <<heap, event_queue, pool, running, wanted, plan, requests, sweeps,
                 failures, ages, scrapes, emitters>>

\* Line 135, self.running = True, and the return of start().
StartFlag ==
  /\ life.main = "start_flag"
  /\ running' = TRUE
  /\ life' = [life EXCEPT !.main = "idle", !.starts = @ + 1]
  /\ Unobserved
  /\ UNCHANGED <<heap, event_queue, pool, wanted, plan, requests, sweeps,
                 failures, ages, scrapes, emitters>>

\* The settings change and their observer, initialize_services (lines
\* 42-78, registered at line 93), builds the services anew: validate()
\* answers otherwise from then on.
Reconfigure ==
  /\ life.changes < MaxChanges
  /\ life' = [life EXCEPT !.valid = ~@, !.changes = @ + 1]
  /\ Unobserved
  /\ UNCHANGED <<heap, event_queue, pool, running, wanted, plan, requests, sweeps,
                 failures, ages, scrapes, emitters>>

\* Line 205, while self.running: the thread leaves run() when the flag is
\* false.
Test ==
  /\ life.thread = "testing"
  /\ life' = [life EXCEPT !.thread = IF running THEN "validating" ELSE "exited"]
  /\ Unobserved
  /\ UNCHANGED <<heap, event_queue, pool, running, wanted, plan, requests, sweeps,
                 failures, ages, scrapes, emitters>>

\* Lines 206-208, if not self.validate(): sleep and test the flag again.
Validate ==
  /\ life.thread = "validating"
  /\ life' = [life EXCEPT !.thread = IF life.valid THEN "getting" ELSE "testing"]
  /\ Unobserved
  /\ UNCHANGED <<heap, event_queue, pool, running, wanted, plan, requests, sweeps,
                 failures, ages, scrapes, emitters>>

\* Lines 210-213, event_queue.get(timeout=10): the first event, or Empty
\* when none came in time.
GetEvent ==
  /\ life.thread = "getting"
  /\ IF event_queue = <<>>
     THEN /\ life' = [life EXCEPT !.thread = "testing"]
          /\ UNCHANGED event_queue
     ELSE /\ life' = [life EXCEPT !.thread = "routing", !.taken = Head(event_queue),
                                  !.upserts = 0]
          /\ event_queue' = Tail(event_queue)
  /\ Unobserved
  /\ UNCHANGED <<heap, pool, running, wanted, plan, requests, sweeps,
                 failures, ages, scrapes, emitters>>

\* Lines 215-216: the stored item is looked up and process_event called.
Route ==
  /\ life.thread = "routing"
  /\ \E existing_item \in {get(heap, life.taken.item.id)} :
     \E r \in {process_event(heap, existing_item, life.taken.emitted_by, life.taken.item)} :
     \E l \in {[life EXCEPT !.thread = "upserting",
                            !.merged = r.updated_item,
                            !.todo = [j \in DOMAIN r.items_to_submit |->
                                        Task(r.next_service, r.items_to_submit[j])]]} :
       /\ life' = l
       /\ heap' = CollectFor(r.heap, event_queue, pool, l)
  /\ Unobserved
  /\ UNCHANGED <<event_queue, pool, running, wanted, plan, requests, sweeps,
                 failures, ages, scrapes, emitters>>

\* The container left as it was, whatever the merged item.
Upserted_never(H, updated_item) == H

\* What media_items holds after lines 221-222 for the merged item.

Upserted(H, updated_item) ==
  IF updated_item # None THEN upsert(H, updated_item) ELSE H

\* Lines 221-222: if updated_item: self.media_items.upsert(updated_item).
Upsert ==
  /\ life.thread = "upserting"
  /\ \E ins \in {IF life.merged # None THEN Inserted(heap, life.merged) ELSE {}} :
     \E l \in {[life EXCEPT
                  !.thread = "submitting",
                  !.upserts = IF life.merged # None THEN @ + 1 ELSE @,
                  !.taken = [@ EXCEPT !.item = Alias(@, life.merged, ins)],
                  !.todo = [j \in DOMAIN @ |->
                              [@[j] EXCEPT !.item = Alias(@, life.merged, ins)]],
                  !.merged = Alias(@, life.merged, ins)]} :
     \E q1 \in {AliasEvents(event_queue, life.merged, ins)} :
     \E p1 \in {[j \in DOMAIN pool |->
                   [pool[j] EXCEPT !.item = Alias(@, life.merged, ins)]]} :
       /\ life' = l
       /\ event_queue' = q1
       /\ pool' = p1
       /\ heap' = CollectFor(Upserted(heap, life.merged), q1, p1, l)
  /\ Unobserved
  /\ UNCHANGED <<running, wanted, plan, requests, sweeps,
                 failures, ages, scrapes, emitters>>

\* Lines 224-231 and 201 of _submit_job: the next item of items_to_submit
\* is skipped, or handed to the executor, which raises RuntimeError once it
\* was shut down; with no item left the cycle is over.
Submit ==
  /\ life.thread = "submitting"
  /\ life' =
       IF life.todo = <<>>
       THEN [life EXCEPT !.thread = "testing", !.taken = Event("None", None),
                         !.merged = None]
       ELSE IF Skipped(Head(life.todo).service, TypeOf(Head(life.todo).item),
                       TimesOf(heap, Head(life.todo).item))
       THEN [life EXCEPT !.todo = Tail(@)]
       ELSE IF life.executor # "up"
       THEN [life EXCEPT !.thread = "crashed"]
       ELSE [life EXCEPT !.thread = "registering", !.todo = Tail(@),
                         !.future = [task |-> Head(life.todo), done |-> FALSE]]
  /\ heap' = CollectFor(heap, event_queue, pool, life')
  /\ Unobserved
  /\ UNCHANGED <<event_queue, pool, running, wanted, plan, requests, sweeps,
                 failures, ages, scrapes, emitters>>

\* A worker of the pool ends the call service.run(item) of the future just
\* submitted, before the dispatcher thread has registered its callback.
Completes ==
  /\ life.future # NoFuture
  /\ ~life.future.done
  /\ life' = [life EXCEPT !.future.done = TRUE]
  /\ Unobserved
  /\ UNCHANGED <<heap, event_queue, pool, running, wanted, plan, requests, sweeps,
                 failures, ages, scrapes, emitters>>

\* What the iteration of service.run(item) does and yields, k being the
\* place of a new object.
Iterated(H, task, k) ==
  CASE task.service = "TraktIndexer" ->
         [heap |-> [H EXCEPT ![k] = Indexed(task.item.id)],
          items |-> <<Ref(k, task.item.id)>>]
    [] task.service = "Scraping" ->
         [heap |-> Scraping_run(H, task.item, TRUE), items |-> <<task.item>>]
    [] task.service = "Downloader" ->
         [heap |-> Downloader_run(H, task.item), items |-> <<task.item>>]
    [] task.service = "Symlinker" ->
         [heap |-> Symlinker_run(H, task.item), items |-> <<task.item>>]
    [] task.service = "PlexUpdater" ->
         [heap |-> PlexUpdater_run(H, task.item), items |-> <<task.item>>]
    [] OTHER -> [heap |-> H, items |-> <<>>]

\* Line 202, future.add_done_callback: on a future that is done the
\* callback, _process_future_item with its iteration of the result, runs at
\* once in the registering thread; on one that is not, the future stays
\* with the pool, whose worker runs the callback when the call ends.
Register ==
  /\ life.thread = "registering"
  /\ \E l \in {[life EXCEPT !.thread = "submitting", !.future = NoFuture,
                            !.inline = @ \/ life.future.done]} :
       /\ life' = l
       /\ IF life.future.done
          THEN /\ FreeHeaps(event_queue, pool) # {}
               /\ \E k \in {Lowest(FreeHeaps(event_queue, pool))} :
                  \E w \in {Iterated(heap, life.future.task, k)} :
                  \E q1 \in {event_queue \o Enqueued(life.future.task.service, w.items, FALSE)} :
                    /\ Len(q1) <= MaxQueue
                    /\ event_queue' = q1
                    /\ heap' = CollectFor(w.heap, q1, pool, l)
                    /\ UNCHANGED pool
          ELSE /\ Len(pool) < MaxPool
               /\ pool' = Append(pool, life.future.task)
               /\ UNCHANGED <<heap, event_queue>>
  /\ Unobserved
  /\ UNCHANGED <<running, wanted, plan, requests, sweeps,
                 failures, ages, scrapes, emitters>>

\* A worker of the pool ends a call and runs its callback.
Finishes ==
  \E i \in DOMAIN pool :
    \/ WorkerIndexer(i, "ok")
    \/ WorkerScraping(i, TRUE, "ok")
    \/ WorkerDownloader(i, "ok")
    \/ WorkerSymlinker(i, "ok")
    \/ WorkerPlexUpdater(i, "ok")

\* The steps of the dispatcher thread.
DispatcherStep == Test \/ Validate \/ GetEvent \/ Route \/ Upsert \/ Submit \/ Register

\* The libraries the threads are followed from: an empty one, to which the
\* API adds a Movie, a Movie that is new, one that is scraped, and a Show
\* whose Season has reached the cutoff.
Libraries ==
  { EmptyTree,
    MovieSnapshot(NewItem),
    MovieSnapshot([OldItem(1) EXCEPT !.streams = TRUE]),
    ShowSnapshot(SeasonCutoff) }

StartThreads(stored, valid) ==
  /\ heap = [k \in Heaps |-> IF k = 0 THEN stored ELSE EmptyTree]
  /\ event_queue = <<>>
  /\ wanted = IF stored = EmptyTree THEN "m1" ELSE Root(stored)
  /\ plan = [requests |-> IF stored = EmptyTree THEN MaxRequests ELSE 0,
             sweeps |-> MaxSweeps, known |-> stored # EmptyTree,
             asks |-> {"m1"}, stops |-> MaxStops]
  /\ scrapes = 0
  /\ pool = <<>>
  /\ requests = 0
  /\ sweeps = 0
  /\ failures = 0
  /\ ages = 0
  /\ cycle = NoCycle
  /\ call = NoCall
  /\ emitters = <<>>
  /\ running = FALSE
  /\ life = Constructed(valid)
  /\ reply = NoReply

InitThreads == \E stored \in Libraries, valid \in BOOLEAN : StartThreads(stored, valid)

NextThreads ==
  \/ StartPrepare
  \/ StartThread
  \/ StartScheduler
  \/ StartFlag
  \/ stop
  \/ Reconfigure
  \/ RetryLibrary
  \/ AddToQueue
  \/ Test
  \/ Validate
  \/ GetEvent
  \/ Route
  \/ Upsert
  \/ Submit
  \/ Completes
  \/ Register
  \/ Finishes

SpecThreads == InitThreads /\ [][NextThreads]_vars

TypeOK ==
  /\ Len(event_queue) <= MaxQueue
  /\ Len(pool) <= MaxPool
  /\ Len(emitters) <= MaxLog
  /\ requests \in 0 .. MaxRequests
  /\ sweeps \in 0 .. MaxSweeps
  /\ failures \in 0 .. MaxFailures
  /\ ages \in 0 .. MaxAges
  /\ \A k \in Heaps, x \in Ids : heap[k][x].scraped_times \in 0 .. MaxScraped
  /\ \A i \in DOMAIN event_queue : Get(heap, event_queue[i].item).present
  /\ \A i \in DOMAIN pool : pool[i].item # None => Get(heap, pool[i].item).present

\* -------------------------------------------------------------- properties
Dispatched == cycle # NoCycle

\* C1: in every dispatcher cycle, a submission the router returned whose
\* item is a Season, whose next service is the Scraper and whose
\* scraped_times is 3 or more is not handed to the pool; every other
\* submission the router returned is handed to the pool, in order.
C1_SeasonsSkippedAtThree ==
  Dispatched =>
    LET kept == SelectSeq(cycle.submissions,
                  LAMBDA x : ~(/\ x.type = "Season"
                               /\ cycle.next_service = "Scraping"
                               /\ x.scraped_times >= 3))
    IN cycle.handed = [j \in DOMAIN kept |-> Task(cycle.next_service, kept[j].item)]

\* A cycle that skipped a Season at exactly three scrapes.
C1_Witness ==
  /\ Dispatched
  /\ cycle.next_service = "Scraping"
  /\ \E j \in DOMAIN cycle.submissions :
       cycle.submissions[j].type = "Season" /\ cycle.submissions[j].scraped_times = 3
  /\ cycle.handed = <<>>

\* C2: no Season is submitted to the Scraper more than three times in all.
C2_AtMostThreeScrapes == scrapes <= 3

\* C3: the pool never holds two tasks for the same item and the same service.
C3_NoDuplicateSubmission ==
  \A i, j \in DOMAIN pool :
    (i # j /\ pool[i].item # None /\ pool[j].item # None) =>
      ~(pool[i].service = pool[j].service /\ pool[i].item.id = pool[j].item.id)

\* The emitters of scenario "happy path, single movie".
HappyPath ==
  <<"Overseerr", "TraktIndexer", "Scraping", "Downloader", "Symlinker", "PlexUpdater">>

IsPrefix(s, t) == Len(s) <= Len(t) /\ s = SubSeq(t, 1, Len(s))

\* A new Movie that a Source emitted once; the program has not been
\* stopped, no sweep and no outside caller has enqueued the Movie, and
\* every service has succeeded so far: none raised, and the Scraper, if it
\* ran, ran once and found streams.
Undisturbed ==
  /\ running
  /\ wanted = "m1" /\ ~plan.known
  /\ requests = 1 /\ sweeps = 0 /\ failures = 0
  /\ emitters # <<>> /\ emitters[1] \in source_services
  /\ heap[0]["m1"].present =>
       \/ heap[0]["m1"].scraped_times = 0
       \/ heap[0]["m1"].scraped_times = 1 /\ heap[0]["m1"].streams

Quiet == event_queue = <<>> /\ pool = <<>>

\* C5: the events processed for a new Movie that a Source emitted carry,
\* while every service succeeds, the emitters Source, Indexer, Scraper,
\* Downloader, Symlinker, LibraryNotifier in that order; the work does not
\* come to rest before the last of them, and after the last the stored
\* Movie is Completed with symlinked true and nothing is left to do.
C5_HappyPath ==
  Undisturbed =>
    /\ IsPrefix(emitters, HappyPath)
    /\ Quiet => emitters = HappyPath
    /\ emitters = HappyPath =>
         /\ heap[0]["m1"].present
         /\ StateOf(heap[0], "m1") = "Completed"
         /\ heap[0]["m1"].symlinked
         /\ Quiet

C5_Witness ==
  Undisturbed /\ emitters = HappyPath /\ StateOf(heap[0], "m1") = "Completed"

Rank(state) ==
  CASE state = "Unknown" -> 0
    [] state = "Indexed" -> 1
    [] state = "Scraped" -> 2
    [] state = "Downloaded" -> 3
    [] state = "Symlinked" -> 4
    [] state = "Completed" -> 5

Advances(before, after) ==
  \/ before = "PartiallyCompleted"
  \/ after = "PartiallyCompleted"
  \/ Rank(before) <= Rank(after)

\* C6: no dispatcher cycle makes the state of an item stored in the
\* container regress along Unknown, Indexed, Scraped, Downloaded,
\* Symlinked, Completed (PartiallyCompleted allowed for containers).
C6_NoRegression ==
  [][Dispatched' =>
       \A x \in Ids : heap[0][x].present =>
         /\ heap'[0][x].present
         /\ Advances(StateOf(heap[0], x), StateOf(heap'[0], x))]_vars

\* C7 as stated: a service invocation that raised has no event at all
\* enqueued for it.
C7_NoEventOfFailedCall == call.raised => call.enqueued = <<>>

\* C7: when a service invocation raises, the callback still completes (the
\* task has left the pool, the failure is counted and the program goes
\* on), the events enqueued for the call are exactly one for each item
\* yielded before the exception, each with the service as emitter and at
\* the tail of the queue, and none is enqueued for anything later.
C7_EventsYieldedBeforeFailure ==
  call.raised =>
    /\ Len(call.enqueued) = call.yielded
    /\ \A j \in DOMAIN call.enqueued : call.enqueued[j].emitted_by = call.service
    /\ Len(event_queue) >= call.yielded
    /\ failures > 0

\* A content service that raised after it had yielded an item.
C7_Witness == call.raised /\ call.yielded = 1 /\ Len(call.enqueued) = 1

\* What the first row returns for the event of the cycle: nothing when the
\* stored item (the parent Show's for a Season) is freshly indexed, else
\* no merged item, the Indexer, and the routed item alone.
FirstRowResult ==
  /\ cycle.updated_item = None
  /\ IF cycle.fresh
     THEN cycle.next_service = "None" /\ cycle.items_to_submit = <<>>
     ELSE cycle.next_service = "TraktIndexer" /\ cycle.items_to_submit = <<cycle.routed>>

C10_SourceOrUnknownToIndexer ==
  (Dispatched /\ (cycle.emitted_by \in
       {"Overseerr", "PlexWatchlist", "Listrr", "Mdblist", "SymlinkLibrary", "TraktContent"}
     \/ cycle.state = "Unknown")) => FirstRowResult

\* An item of state Unknown that no Source emitted goes to the Indexer.
C10_Witness ==
  /\ Dispatched /\ cycle.emitted_by = "Program" /\ cycle.state = "Unknown"
  /\ cycle.existing_item = None
  /\ cycle.next_service = "TraktIndexer" /\ cycle.items_to_submit = <<cycle.item>>
  /\ Len(cycle.handed) = 1

\* A stored item for which the event of a sweep makes the dispatcher hand
\* nothing to the pool.
Stable(x) ==
  LET r == process_event(heap, Ref(0, x), "Program", Ref(0, x))
  IN \A j \in DOMAIN r.items_to_submit :
       Skipped(r.next_service, TypeOf(r.items_to_submit[j]),
               TimesOf(r.heap, r.items_to_submit[j]))

Settled ==
  /\ pool = <<>>
  /\ \A x \in Ids : heap[0][x].present =>
       StateOf(heap[0], x) = "Completed" \/ Stable(x)

C8_FailedItemSweptAgain ==
  [][(call.raised /\ call.item # None /\ sweeps' = sweeps + 1) =>
       /\ call.before = call.after
       /\ \E j \in Len(event_queue) + 1 .. Len(event_queue') :
            /\ event_queue'[j].emitted_by = "Program"
            /\ event_queue'[j].item.id = call.item.id]_vars

\* The cycle took an event that the first row of the router matches.
BySourceRow ==
  /\ Dispatched
  /\ \/ cycle.emitted_by \in
          {"Overseerr", "PlexWatchlist", "Listrr", "Mdblist", "SymlinkLibrary",
           "TraktContent"}
     \/ cycle.state = "Unknown"

\* The cycle took an event that the second row of the router matches.
ByIndexerRow ==
  /\ Dispatched /\ ~BySourceRow
  /\ (cycle.emitted_by = "TraktIndexer" \/ cycle.state = "Indexed")

\* C11: when the first row takes a Season, the freshness check is made on
\* the parent Show of the stored Season: if a Season is stored and its
\* parent Show is freshly indexed nothing is returned, and otherwise the
\* Indexer is given exactly one submission, the parent Show of the
\* incoming Season, and never the Season.
C11_SeasonPromoted ==
  [][(BySourceRow' /\ cycle'.type = "Season") =>
       LET item == cycle'.item
           existing_item == cycle'.existing_item
       IN /\ \A j \in DOMAIN cycle'.items_to_submit :
               Type(cycle'.items_to_submit[j].id) # "Season"
          /\ IF /\ existing_item # None
                /\ ~TraktIndexer_should_submit(heap, Ref(0, ParentId(existing_item.id)))
             THEN cycle'.next_service = "None" /\ cycle'.items_to_submit = <<>>
             ELSE /\ cycle'.next_service = "TraktIndexer"
                  /\ cycle'.items_to_submit = <<Ref(item.h, ParentId(item.id))>>]_vars

\* A stored Season of state Unknown whose parent Show was indexed long
\* ago: the Show went to the Indexer.
C11_Witness ==
  /\ BySourceRow /\ cycle.type = "Season" /\ cycle.existing_item # None
  /\ cycle.items_to_submit = <<Ref(cycle.item.h, "sh1")>>
  /\ cycle.handed = <<Task("TraktIndexer", Ref(cycle.item.h, "sh1"))>>
  /\ heap[0]["sh1"].indexed_at = "old"

\* C12: when the first row takes an event for which an item is stored and
\* TraktIndexer.should_submit reports that item (its parent Show, for a
\* Season) as freshly indexed, the router returns no merged item, no next
\* service and no submissions, and the cycle leaves the graph as it was
\* and gives the pool nothing.
C12_FreshlyIndexedSkipped ==
  [][(/\ BySourceRow'
      /\ cycle'.existing_item # None
      /\ ~TraktIndexer_should_submit(heap,
            IF cycle'.type = "Season"
            THEN Ref(0, ParentId(cycle'.existing_item.id))
            ELSE cycle'.existing_item)) =>
       /\ cycle'.updated_item = None
       /\ cycle'.next_service = "None"
       /\ cycle'.items_to_submit = <<>>
       /\ cycle'.handed = <<>>
       /\ heap'[0] = heap[0]
       /\ pool' = pool]_vars

\* A Source named a title whose stored item was indexed a moment ago:
\* nothing was returned and nothing handed to the pool.
C12_Witness ==
  /\ BySourceRow /\ cycle.emitted_by = "Overseerr"
  /\ cycle.existing_item # None
  /\ Get(heap, cycle.existing_item).indexed_at = "recent"
  /\ cycle.updated_item = None /\ cycle.next_service = "None"
  /\ cycle.items_to_submit = <<>> /\ cycle.handed = <<>>

\* C13: a cycle on the event of a Source whose item is stored and
\* Completed returns no next service and no submissions, leaves the graph
\* as it was and gives the pool nothing.
C13_CompletedNotResubmitted ==
  [][(/\ Dispatched'
      /\ cycle'.emitted_by \in
           {"Overseerr", "PlexWatchlist", "Listrr", "Mdblist", "SymlinkLibrary",
            "TraktContent"}
      /\ cycle'.existing_item # None
      /\ State(heap, cycle'.existing_item) = "Completed") =>
       /\ cycle'.next_service = "None"
       /\ cycle'.items_to_submit = <<>>
       /\ heap'[0] = heap[0]
       /\ pool' = pool]_vars

\* C14: in every cycle on an event that the Indexer row takes and for
\* which an item is stored, the merged item returned is the stored item,
\* and the stored item has the incoming item's indexed_at and (a Show or a
\* Season) every child that the incoming item holds.
C14_MergedIntoExisting ==
  [][(ByIndexerRow' /\ cycle'.existing_item # None) =>
       LET item == cycle'.item
           existing_item == cycle'.existing_item
       IN /\ cycle'.updated_item = existing_item
          /\ heap'[0][existing_item.id].indexed_at = Get(heap, item).indexed_at
          /\ \A x \in Descendants(item.id) :
               heap[item.h][x].present => heap'[0][x].present]_vars

\* The heap once the Indexer row has merged what it merges (lines 36-41).
AfterMerge(H, existing_item, item) ==
  IF existing_item # None /\ Get(H, existing_item).indexed_at = "null"
  THEN MergeIndexed(H, existing_item, item)
  ELSE H

\* `item` as the Indexer row has it at line 44: the stored item when the
\* row merged into it (line 41), else the incoming item.
RowItem(H, existing_item, item) ==
  IF existing_item # None /\ Get(H, existing_item).indexed_at = "null"
  THEN existing_item
  ELSE item

\* C15: in every cycle on an event that the Indexer row takes, when the
\* stored item is Completed once the row has merged what it merges, the
\* router returns the stored item, no next service and no submissions,
\* and nothing is handed to the pool.
C15_CompletedNotRescraped ==
  [][(/\ ByIndexerRow'
      /\ cycle'.existing_item # None
      /\ State(AfterMerge(heap, cycle'.existing_item, cycle'.item),
               cycle'.existing_item) = "Completed") =>
       /\ cycle'.updated_item = cycle'.existing_item
       /\ cycle'.next_service = "None"
       /\ cycle'.items_to_submit = <<>>
       /\ cycle'.handed = <<>>
       /\ pool' = pool]_vars

\* The Indexer yielded a new object for a title whose stored item is
\* Completed: the stored item came back and nothing went to the Scraper.
C15_Witness ==
  /\ ByIndexerRow /\ cycle.emitted_by = "TraktIndexer"
  /\ cycle.existing_item # None /\ cycle.item # cycle.existing_item
  /\ State(heap, cycle.existing_item) = "Completed"
  /\ cycle.updated_item = cycle.existing_item
  /\ cycle.next_service = "None" /\ cycle.handed = <<>>

\* The step is a cycle in which the Indexer row came to its scrape
\* expansion (line 44): the row took the event and did not return at
\* lines 42-43 for a stored item that is Completed.
Expanding ==
  /\ ByIndexerRow'
  /\ ~(/\ cycle'.existing_item # None
       /\ State(AfterMerge(heap, cycle'.existing_item, cycle'.item),
                cycle'.existing_item) = "Completed")

Scrapable(H, item, excluded) ==
  SelectSeq(children(H, item),
            LAMBDA c : State(H, c) \notin excluded /\ can_we_scrape(H, c))

\* C17 as stated: when the Indexer row comes to its scrape expansion with
\* a Show, the submissions are exactly the Show's seasons whose state is
\* not Completed, Downloaded or Scraped and that pass can_we_scrape,
\* whatever can_we_scrape says of the Show.
C17_ShowSeasons ==
  [][(Expanding /\ cycle'.type = "Show") =>
       LET H1 == AfterMerge(heap, cycle'.existing_item, cycle'.item)
           item == RowItem(heap, cycle'.existing_item, cycle'.item)
       IN /\ cycle'.next_service = "Scraping"
          /\ cycle'.items_to_submit =
               Scrapable(H1, item, {"Completed", "Downloaded", "Scraped"})]_vars

\* C17: when the Indexer row comes to its scrape expansion with a Show,
\* the next service is the Scraper; if can_we_scrape(Show) holds the
\* submissions are exactly the Show's seasons whose state is not
\* Completed, Downloaded or Scraped and that pass can_we_scrape, and if it
\* does not hold there are none; the Show is never among them.
C17_ShowSeasonsIfScrapable ==
  [][(Expanding /\ cycle'.type = "Show") =>
       LET H1 == AfterMerge(heap, cycle'.existing_item, cycle'.item)
           item == RowItem(heap, cycle'.existing_item, cycle'.item)
       IN /\ cycle'.next_service = "Scraping"
          /\ cycle'.items_to_submit =
               IF can_we_scrape(H1, item)
               THEN Scrapable(H1, item, {"Completed", "Downloaded", "Scraped"})
               ELSE <<>>
          /\ \A j \in DOMAIN cycle'.items_to_submit :
               Type(cycle'.items_to_submit[j].id) = "Season"]_vars

\* The Indexer yielded a Show whose stored item, not indexed so far, has
\* its first Season Scraped and its second Indexed: the second alone is
\* submitted.
C17_Witness ==
  /\ ByIndexerRow /\ cycle.type = "Show" /\ cycle.emitted_by = "TraktIndexer"
  /\ State(heap, Ref(0, "s1")) = "Scraped"
  /\ State(heap, Ref(0, "s2")) = "Indexed"
  /\ cycle.items_to_submit = <<Ref(0, "s2")>>
  /\ cycle.handed = <<Task("Scraping", Ref(0, "s2"))>>

\* C18 as stated: when the Indexer row comes to its scrape expansion with
\* a Season, the submissions are exactly its episodes whose state is not
\* Completed, Downloaded or Scraped and that pass can_we_scrape if the
\* Season's scraped_times is 4 or more, and the Season itself if it is
\* less than 4, whatever can_we_scrape says of the Season.
C18_SeasonOrEpisodes ==
  [][(Expanding /\ cycle'.type = "Season") =>
       LET H1 == AfterMerge(heap, cycle'.existing_item, cycle'.item)
           item == RowItem(heap, cycle'.existing_item, cycle'.item)
       IN cycle'.items_to_submit =
            IF Get(H1, item).scraped_times >= 4
            THEN Scrapable(H1, item, {"Completed", "Downloaded", "Scraped"})
            ELSE <<item>>]_vars

\* C18: when the Indexer row comes to its scrape expansion with a Season,
\* the next service is the Scraper; if can_we_scrape(Season) does not hold
\* there are no submissions; if it holds, the submissions are exactly the
\* Season's episodes whose state is not Completed, Downloaded or Scraped
\* and that pass can_we_scrape when the Season's scraped_times is 4 or
\* more, and the Season itself when it is less than 4.
C18_SeasonOrEpisodesIfScrapable ==
  [][(Expanding /\ cycle'.type = "Season") =>
       LET H1 == AfterMerge(heap, cycle'.existing_item, cycle'.item)
           item == RowItem(heap, cycle'.existing_item, cycle'.item)
       IN /\ cycle'.next_service = "Scraping"
          /\ cycle'.items_to_submit =
               IF ~can_we_scrape(H1, item) THEN <<>>
               ELSE IF Get(H1, item).scraped_times >= 4
               THEN Scrapable(H1, item, {"Completed", "Downloaded", "Scraped"})
               ELSE <<item>>]_vars

\* A stored Season scraped four times, long ago: of its two Indexed
\* episodes the one that was not scraped a moment ago is submitted.
C18_Witness ==
  /\ ByIndexerRow /\ cycle.type = "Season" /\ cycle.item = Ref(0, "s1")
  /\ heap[0]["s1"].scraped_times = 4 /\ heap[0]["s1"].scraped_at = "old"
  /\ heap[0]["e1"].scraped_at = "recent"
  /\ cycle.next_service = "Scraping"
  /\ cycle.items_to_submit = <<Ref(0, "e2")>>
  /\ cycle.handed = <<Task("Scraping", Ref(0, "e2"))>>

\* A scrape of the whole Season has found streams.
SeasonHit == \E k \in Heaps : heap[k]["s1"].streams \/ heap[k]["s2"].streams

\* The cycle in which the router expanded a Season scraped four times or
\* more into its episodes, for the Scraper.
EpisodesExpanded ==
  /\ ByIndexerRow /\ cycle.type = "Season"
  /\ cycle.next_service = "Scraping"
  /\ cycle.items_to_submit # <<>>
  /\ \A j \in DOMAIN cycle.items_to_submit :
       Type(cycle.items_to_submit[j].id) = "Episode"

ByPartiallyCompletedRow ==
  /\ Dispatched /\ ~BySourceRow /\ ~ByIndexerRow
  /\ cycle.state = "PartiallyCompleted"

\* C20: when the PartiallyCompleted row takes the event, the next service
\* is the Scraper and the submissions are, for a Show, exactly its seasons
\* whose state is neither Completed nor PartiallyCompleted and that pass
\* can_we_scrape, and for a Season, exactly its episodes of state Indexed
\* that pass can_we_scrape; a Show whose first Season is Completed and
\* whose second is Indexed and passes can_we_scrape yields the second.
C20_PartiallyCompletedToScraper ==
  [][ByPartiallyCompletedRow' =>
       LET item == cycle'.item
       IN /\ cycle'.next_service = "Scraping"
          /\ cycle'.type \in {"Show", "Season"}
          /\ cycle'.type = "Show" =>
               cycle'.items_to_submit =
                 Scrapable(heap, item, {"Completed", "PartiallyCompleted"})
          /\ cycle'.type = "Season" =>
               cycle'.items_to_submit =
                 SelectSeq(children(heap, item),
                           LAMBDA e : State(heap, e) = "Indexed" /\ can_we_scrape(heap, e))
          /\ (/\ cycle'.type = "Show"
              /\ heap[item.h]["s1"].present /\ heap[item.h]["s2"].present
              /\ State(heap, Ref(item.h, "s1")) = "Completed"
              /\ State(heap, Ref(item.h, "s2")) = "Indexed"
              /\ can_we_scrape(heap, Ref(item.h, "s2"))) =>
               cycle'.items_to_submit = <<Ref(item.h, "s2")>>]_vars

\* The sweep's event for a stored Show whose first Season is Completed and
\* whose second is Indexed: the second went to the Scraper.
C20_Witness ==
  /\ ByPartiallyCompletedRow /\ cycle.type = "Show" /\ cycle.item = Ref(0, "sh1")
  /\ State(heap, Ref(0, "s1")) = "Completed"
  /\ State(heap, Ref(0, "s2")) = "Indexed"
  /\ cycle.next_service = "Scraping"
  /\ cycle.items_to_submit = <<Ref(0, "s2")>>
  /\ cycle.handed = <<Task("Scraping", Ref(0, "s2"))>>

\* The cycle took an event that none of the first three rows matches and
\* whose item has the given state.
ByStateRow(state) ==
  /\ Dispatched /\ ~BySourceRow /\ ~ByIndexerRow
  /\ cycle.state = state

\* The proposal set of the Downloaded row: the item for a Movie or an
\* Episode; for a Show or a Season the item if each child that is not
\* symlinked has file and folder, and otherwise those of the children not
\* symlinked that have them.
Proposal(H, item) ==
  LET waiting == SelectSeq(children(H, item), LAMBDA c : ~Get(H, c).symlinked)
      ready == SelectSeq(waiting, LAMBDA c : Get(H, c).file /\ Get(H, c).folder)
  IN IF Type(item.id) \in {"Movie", "Episode"} THEN <<item>>
     ELSE IF Len(ready) = Len(waiting) THEN <<item>>
     ELSE ready

\* C21: when the Downloaded row takes the event, the next service is the
\* Symlinker and the submissions are exactly the proposals that pass
\* Symlinker.should_submit, in the order of the proposal set: for a Show
\* the Show if every season not symlinked has file and folder and else the
\* seasons not symlinked that have them, for a Season the same over its
\* episodes, for a Movie or an Episode the item.
C21_DownloadedToSymlinker ==
  [][ByStateRow("Downloaded")' =>
       /\ cycle'.next_service = "Symlinker"
       /\ cycle'.items_to_submit =
            SelectSeq(Proposal(heap, cycle'.item),
                      LAMBDA c : Symlinker_should_submit(heap, c))]_vars

\* A stored Show of two seasons, neither symlinked, of which the first
\* alone has file and folder: the first Season went to the Symlinker.
C21_Witness ==
  /\ ByStateRow("Downloaded") /\ cycle.item = Ref(0, "sh1")
  /\ heap[0]["s1"].file /\ heap[0]["s1"].folder /\ ~heap[0]["s1"].symlinked
  /\ heap[0]["s2"].present /\ ~heap[0]["s2"].file /\ ~heap[0]["s2"].symlinked
  /\ cycle.next_service = "Symlinker"
  /\ cycle.items_to_submit = <<Ref(0, "s1")>>
  /\ cycle.handed = <<Task("Symlinker", Ref(0, "s1"))>>

\* What process_event returns on the event of the cycle just made, computed
\* on the graph as it was before the cycle.
Returned ==
  process_event(heap, cycle'.existing_item, cycle'.emitted_by, cycle'.item)

\* C22: when the Scraped row takes the event, the router merges nothing
\* (the graph it leaves is the graph it found, the item it returns is the
\* incoming one), the next service is the Downloader and the submissions
\* are the item alone.
C22_ScrapedToDownloader ==
  [][ByStateRow("Scraped")' =>
       /\ Returned.heap = heap
       /\ cycle'.updated_item = cycle'.item
       /\ cycle'.next_service = "Downloader"
       /\ cycle'.items_to_submit = <<cycle'.item>>]_vars

\* A Scraped Movie that the Scraper yielded went to the Downloader.
C22_Witness ==
  /\ ByStateRow("Scraped") /\ cycle.emitted_by = "Scraping"
  /\ cycle.type = "Movie"
  /\ cycle.items_to_submit = <<cycle.item>>
  /\ cycle.handed = <<Task("Downloader", cycle.submissions[1].item)>>

\* C23: when the Symlinked row takes the event, the next service is the
\* library notifier (PlexUpdater) and the submissions are the item alone.
C23_SymlinkedToNotifier ==
  [][ByStateRow("Symlinked")' =>
       /\ cycle'.next_service = "PlexUpdater"
       /\ cycle'.items_to_submit = <<cycle'.item>>]_vars

\* A Symlinked item of the graph went to the library notifier.
C23_Witness ==
  /\ ByStateRow("Symlinked")
  /\ cycle.items_to_submit = <<cycle.item>>
  /\ cycle.handed = <<Task("PlexUpdater", cycle.submissions[1].item)>>

\* C24: when the Completed row takes the event, the router returns no next
\* service and no submission, and the cycle leaves the pool as it was.
C24_CompletedEndsCycle ==
  [][ByStateRow("Completed")' =>
       /\ cycle'.next_service = "None"
       /\ cycle'.items_to_submit = <<>>
       /\ cycle'.handed = <<>>
       /\ pool' = pool]_vars

\* A Completed item came back from the library notifier and nothing was
\* submitted for it.
C24_Witness ==
  /\ ByStateRow("Completed") /\ cycle.emitted_by = "PlexUpdater"
  /\ cycle.next_service = "None" /\ cycle.handed = <<>>

\* The result of the cycle just made is the result r of a row.
ResultOf(r) ==
  /\ cycle'.updated_item = r.updated_item
  /\ cycle'.next_service = r.next_service
  /\ cycle'.items_to_submit = r.items_to_submit

\* The cycle just made took an event of the Indexer whose item has a state
\* that a row further down names.
IndexerFirst ==
  /\ Dispatched' /\ cycle'.emitted_by = "TraktIndexer"
  /\ cycle'.state \in {"PartiallyCompleted", "Scraped", "Downloaded",
                       "Symlinked", "Completed"}

\* The cycle just made took an event of the Indexer whose item is Unknown.
UnknownFirst ==
  /\ Dispatched' /\ cycle'.emitted_by = "TraktIndexer"
  /\ cycle'.state = "Unknown"

\* C25 as stated: an event of the Indexer whose item is PartiallyCompleted,
\* Scraped, Downloaded, Symlinked or Completed gets the Scraper as next
\* service, and an event of the Indexer whose item is Unknown gets what
\* the first row gives.
C25_FirstMatchWins ==
  [][/\ IndexerFirst => cycle'.next_service = "Scraping"
     /\ UnknownFirst =>
          ResultOf(SourceRow(heap, cycle'.existing_item, cycle'.item))]_vars

\* C25, amended: an event of the Indexer whose item is PartiallyCompleted,
\* Scraped, Downloaded, Symlinked or Completed gets what the Indexer row
\* gives: the stored item, no next service and no submission when the
\* stored item is Completed after the merge, and else the Scraper as next
\* service with the row's scrape expansion; an event of the Indexer whose
\* item is Unknown gets what the first row gives: the Indexer as next
\* service, or nothing when the stored item is freshly indexed.
C25_FirstMatchWinsUnlessCompleted ==
  [][/\ IndexerFirst =>
          LET existing_item == cycle'.existing_item
              done == /\ existing_item # None
                      /\ State(AfterMerge(heap, existing_item, cycle'.item),
                               existing_item) = "Completed"
          IN /\ ResultOf(IndexerRow(heap, existing_item, cycle'.item))
             /\ cycle'.next_service = IF done THEN "None" ELSE "Scraping"
             /\ done => cycle'.updated_item = existing_item
     /\ UnknownFirst =>
          /\ ResultOf(SourceRow(heap, cycle'.existing_item, cycle'.item))
          /\ cycle'.updated_item = None
          /\ cycle'.next_service = IF cycle'.fresh THEN "None" ELSE "TraktIndexer"]_vars

\* The Indexer yielded a Downloaded Movie, the stored one: it went to the
\* Scraper and not to the Symlinker.
C25_Witness ==
  /\ Dispatched /\ cycle.emitted_by = "TraktIndexer"
  /\ cycle.state = "Downloaded" /\ cycle.type = "Movie"
  /\ cycle.next_service = "Scraping"
  /\ cycle.handed = <<Task("Scraping", cycle.item)>>

\* What a second call of process_event returns, made right after the first
\* with the same existing item, emitter and incoming item.
ReturnedAgain ==
  process_event(Returned.heap, cycle'.existing_item, cycle'.emitted_by, cycle'.item)

\* The ids of the items of a result, with its next service.
Outline(r) ==
  [updated_item |-> r.updated_item.id, next_service |-> r.next_service,
   items_to_submit |-> [j \in DOMAIN r.items_to_submit |-> r.items_to_submit[j].id]]

\* C26: process_event is pure: it leaves its arguments and the graph as it
\* found them, and called again with the same arguments it returns an
\* equal result.
C26_RouterPure ==
  [][Dispatched' =>
       /\ Returned.heap = heap
       /\ Outline(ReturnedAgain) = Outline(Returned)]_vars

\* C27: a call of add_to_queue with a Movie, a Show, a Season or an Episode
\* puts exactly one event at the end of the queue, with the program as
\* emitter and that item, and returns true; a call with any other value
\* returns false and leaves the queue as it was.
C27_AddToQueueAcceptsItems ==
  [][reply' # NoReply =>
       IF reply'.item \in Ids
       THEN /\ reply'.returned
            /\ Len(event_queue') = Len(event_queue) + 1
            /\ SubSeq(event_queue', 1, Len(event_queue)) = event_queue
            /\ event_queue'[Len(event_queue')].emitted_by = "Program"
            /\ event_queue'[Len(event_queue')].item.id = reply'.item
            /\ event_queue'[Len(event_queue')].item.h # 0
       ELSE /\ ~reply'.returned
            /\ event_queue' = event_queue]_vars

\* add_to_queue was called with a Season while the sweep's events were
\* waiting: it returned true and its event is the last of the queue.
C27_Witness ==
  /\ reply = [item |-> "s1", returned |-> TRUE]
  /\ Len(event_queue) > 1
  /\ event_queue[Len(event_queue)] = Event("Program", Ref(1, "s1"))
  /\ event_queue[1].item.h = 0

\* C28: in every callback of the pool, the events put on the queue are,
\* in the order of the yields, one event for each MediaItem the service
\* yielded, with the service as emitter; a value yielded that is no
\* MediaItem has no event, and the items yielded after it have theirs.
C28_OneEventPerYieldedItem ==
  [][call' # NoCall =>
       LET kept == SelectSeq(call'.items, LAMBDA r : r.id \in Ids)
       IN /\ call'.enqueued = [j \in DOMAIN kept |-> Event(call'.service, kept[j])]
          /\ event_queue' = event_queue \o call'.enqueued]_vars

\* A content service yielded a value that is no item and then a Movie or
\* a Show: the one event of the call is the item's.
C28_Witness ==
  /\ call.service = "Overseerr" /\ ~call.raised
  /\ Len(call.items) = 2 /\ call.items[1] = None /\ call.items[2].id = wanted
  /\ call.enqueued = <<Event("Overseerr", call.items[2])>>
  /\ event_queue # <<>> /\ event_queue[Len(event_queue)] = call.enqueued[1]

\* The events that the step just taken put at the end of the queue.
Added == SubSeq(event_queue', Len(event_queue) + 1, Len(event_queue'))

\* C29: a firing of the retry sweep leaves the events that were waiting
\* where they were and puts behind them exactly one event for every item
\* of the graph whose state is not Completed, with the program as emitter
\* and the stored object as item, and no event for a Completed item.
C29_SweepEnqueuesIncomplete ==
  [][sweeps' = sweeps + 1 =>
       /\ event_queue' = event_queue \o Added
       /\ \A j \in DOMAIN Added :
            Added[j].emitted_by = "Program" /\ Added[j].item.h = 0
       /\ \A x \in Ids :
            Cardinality({j \in DOMAIN Added : Added[j].item.id = x}) =
              IF heap[0][x].present /\ StateOf(heap[0], x) # "Completed"
              THEN 1 ELSE 0]_vars

\* The sweep fired on a Show whose first Season holds a Completed Episode
\* and one that is not: the queue holds the Show, the Season and the open
\* Episode, and not the Completed one.
C29_Witness ==
  /\ sweeps = 1 /\ reply = NoReply
  /\ StateOf(heap[0], "e2") = "Completed" /\ heap[0]["e2"].present
  /\ StateOf(heap[0], "e1") # "Completed"
  /\ event_queue = <<Event("Program", Ref(0, "sh1")), Event("Program", Ref(0, "s1")),
                     Event("Program", Ref(0, "e1"))>>

\* C30: once stop() has returned, the queue is empty, no task of the pool
\* is outstanding, and it stays so.
C30_StoppedIsQuiet ==
  ~running => (event_queue = <<>> /\ pool = <<>>)

\* C38: when the Indexer emits a fresh copy of an item whose stored copy
\* is Scraped, Downloaded or Symlinked, the cycle hands nothing to the
\* Scraper.
C38_StoredProgressNotRescraped ==
  [][(/\ Dispatched' /\ cycle'.emitted_by = "TraktIndexer"
      /\ cycle'.item.h # 0
      /\ cycle'.existing_item # None
      /\ State(heap, cycle'.existing_item) \in {"Scraped", "Downloaded", "Symlinked"}) =>
       \A j \in DOMAIN cycle'.handed : cycle'.handed[j].service # "Scraping"]_vars

\* C31: a second start(), a second stop() and a stop() before start()
\* raise no error.
C31_StartStopIdempotent == life.error = "None"

\* The dispatcher thread takes an event off the queue.
Dequeued == life.thread = "getting" /\ life'.thread = "routing"

\* The dispatcher thread hands a task to the executor.
Handed == life.thread = "submitting" /\ life'.thread = "registering"

\* C32: the dispatcher thread takes an event off the queue, and hands a
\* task to the pool, only while the registry is valid.
C32_DispatchOnlyWhileValid == [][(Dequeued \/ Handed) => life.valid]_vars

\* C33: in a cycle the container is upserted with the merged item exactly
\* when there is one, before any task of the cycle is handed to the pool;
\* with no merged item the steps of the cycle leave the container as it
\* was.
C33_UpsertThenSubmit ==
  /\ [](life.thread \in {"routing", "upserting"} => life.upserts = 0)
  /\ [](life.thread \in {"submitting", "registering"} =>
          life.upserts = IF life.merged # None THEN 1 ELSE 0)
  /\ [](life.future # NoFuture => life.thread = "registering")
  /\ [][(life.thread = "upserting" /\ life'.thread = "submitting") =>
          heap'[0] = IF life.merged # None THEN upsert(heap, life.merged)[0]
                     ELSE heap[0]]_vars
  /\ [][(/\ life.thread \in {"routing", "upserting", "submitting"}
         /\ life'.thread # life.thread
         /\ life'.merged = None) => heap'[0] = heap[0]]_vars

C33_Witness ==
  /\ life.thread = "registering"
  /\ life.upserts = 1
  /\ life.merged # None
  /\ ~plan.known
  /\ heap[0][life.merged.id].indexed_at = "recent"

\* C34: once start() has returned, every step that changes a stored item
\* is a step of the dispatcher thread.
C34_OnlyDispatcherMutates ==
  [][(life.starts > 0 /\ heap'[0] # heap[0]) => DispatcherStep]_vars

\* C35: the iteration of what a service returned never runs on the
\* dispatcher thread.
C35_ServiceWorkOffDispatcher == ~life.inline

\* C36: once start() has returned, and stop() was not called, the
\* dispatcher thread is in its loop.
C36_DispatcherAliveAfterStart ==
  (running /\ life.main = "idle" /\ life.starts = 1 /\ life.stops = 0) =>
    life.thread \notin {"exited", "crashed"}

\* C37: the dispatcher thread is never ended by the error of a submission
\* to an executor that was shut down.
C37_NoSubmitAfterShutdown == life.thread # "crashed"

====
